---- MODULE Spec2Model ----
(***************************************************************************)
(* Task Manager: the two backends of the task CRUD API, and the App and    *)
(* TaskForm components of the React frontend.                              *)
(*                                                                         *)
(*   - the minimal Express server (server.js): an in-memory array `tasks`  *)
(*     and a counter `nextId`, partial-update PUT;                         *)
(*   - the Spring Boot TaskController over a JPA TaskRepository,           *)
(*     full-replace PUT.  The Task entity and the repository interface are *)
(*     not part of the sources at hand; what the controller needs of them  *)
(*     (bean validation, id generation, column length) is modelled from    *)
(*     the specification, the README and the tests.                        *)
(*                                                                         *)
(* One deployment runs one backend: `variant` is chosen in Init.  A        *)
(* request is received (`req`), its route handler runs to completion as    *)
(* one action and produces the response (`resp`), and the response is      *)
(* delivered before the next request is received: the server handles one   *)
(* request at a time.  `lastCreated`, `createdIds` and `deletedIds` are    *)
(* history variables.                                                      *)
(*                                                                         *)
(* Further specifications over the same variables: SpecList (the servers   *)
(* under few kinds of request, with one more task), SpecConc (the Spring   *)
(* controller with two requests in flight, its repository calls            *)
(* interleaved), SpecForm (TaskForm on its own), SpecSort (the sorted view *)
(* of App over loaded lists) and SpecApp (App with its TaskForm on the     *)
(* Spring backend, the answers to its requests arriving in any order or    *)
(* not at all).                                                            *)
(***************************************************************************)
EXTENDS Integers, Sequences, FiniteSets, TLC

VARIABLES variant,      \* "express" | "jpa": the backend that is deployed
          tasks,        \* server.js: let tasks = []
          nextId,       \* server.js: let nextId = 1
          clock,        \* server.js: the reading of new Date()
          repository,   \* TaskRepository: the rows of the task table, by id
          sequence,     \* TaskRepository: the id generator of the table
          req,          \* the request in flight
          resp,         \* the response to it, once its handler has run
          lastCreated,  \* history: the record the previous request created, if it did
          createdIds,   \* history: ids returned by successful creates, in order
          deletedIds,   \* history: ids whose DELETE succeeded
          form,         \* TaskForm: its state, its props and its call of onSave
          threads,      \* Spring backend: two requests handled by two threads
          app           \* App: its state and its requests in flight

vars == <<variant, tasks, nextId, clock, repository, sequence, req, resp,
          lastCreated, createdIds, deletedIds, form, threads, app>>

\* what a deployment keeps between requests
store == <<tasks, nextId, repository, sequence>>

\* what no route handler writes
fixed == <<variant, lastCreated, form, threads, app>>

\* what the form does not write
beyondForm ==
    <<variant, store, clock, req, resp, lastCreated, createdIds, deletedIds, threads, app>>

\* what the request threads of the Spring backend do not write
beyondThreads ==
    <<variant, tasks, nextId, clock, req, resp, lastCreated, createdIds, deletedIds, form,
      app>>

(***************************************************************************)
(* Bounds of the model and constants of the program.                       *)
(***************************************************************************)
MaxId == 2            \* creates are explored while the next id is <= MaxId

MaxTitleLen == 100    \* title: at most 100 characters
MaxDescLen == 500     \* description: at most 500 characters
DbDescLen == 255      \* the description column is VARCHAR(255)

(***************************************************************************)
(* Strings are sequences of characters; JSON/JavaScript values are tagged. *)
(***************************************************************************)
Rep(c, n) == [i \in 1..n |-> c]

WhiteSpace == {" "}

RECURSIVE TrimStart(_)
TrimStart(s) ==
    IF s = <<>> THEN s
    ELSE IF Head(s) \in WhiteSpace THEN TrimStart(Tail(s)) ELSE s

RECURSIVE TrimEnd(_)
TrimEnd(s) ==
    IF s = <<>> THEN s
    ELSE IF s[Len(s)] \in WhiteSpace THEN TrimEnd(SubSeq(s, 1, Len(s) - 1)) ELSE s

\* String.prototype.trim / java.lang.String.trim
Trim(s) == TrimEnd(TrimStart(s))

Undefined == [kind |-> "undefined", s |-> <<>>, b |-> FALSE]
Null == [kind |-> "null", s |-> <<>>, b |-> FALSE]
Str(s) == [kind |-> "string", s |-> s, b |-> FALSE]
Bool(b) == [kind |-> "boolean", s |-> <<>>, b |-> b]
Number5 == [kind |-> "number", s |-> <<>>, b |-> FALSE]   \* the JSON number 5

\* JavaScript ToBoolean, as `!v` and `!!v` use it
Truthy(v) ==
    CASE v.kind = "undefined" -> FALSE
      [] v.kind = "null" -> FALSE
      [] v.kind = "string" -> v.s # <<>>
      [] v.kind = "boolean" -> v.b
      [] v.kind = "number" -> TRUE

Digits == <<"0", "1", "2", "3", "4", "5", "6", "7", "8", "9">>

DigitValue(c) == CHOOSE d \in 0..9 : Digits[d + 1] = c

IsDigit(c) == \E d \in 0..9 : Digits[d + 1] = c

\* Number.prototype.toString of a non-negative integer, as a request path carries it
RECURSIVE IdStr(_)
IdStr(n) == IF n < 10 THEN <<Digits[n + 1]>> ELSE IdStr(n \div 10) \o <<Digits[(n % 10) + 1]>>

RECURSIVE LeadingDigits(_)
LeadingDigits(s) ==
    IF s = <<>> \/ ~IsDigit(Head(s)) THEN <<>>
    ELSE <<Head(s)>> \o LeadingDigits(Tail(s))

RECURSIVE DecimalValue(_)
DecimalValue(ds) ==
    IF ds = <<>> THEN 0
    ELSE 10 * DecimalValue(SubSeq(ds, 1, Len(ds) - 1)) + DigitValue(ds[Len(ds)])

\* parseInt(s, 10) of an unsigned path segment: leading white space is skipped, the
\* longest prefix of digits is read, and NaN is the result when there is none
ParseInt(s) ==
    LET ds == LeadingDigits(TrimStart(s))
    IN  IF ds = <<>> THEN [nan |-> TRUE, n |-> 0]
        ELSE [nan |-> FALSE, n |-> DecimalValue(ds)]

(***************************************************************************)
(* Requests and responses.                                                 *)
(***************************************************************************)
NoBody == [kind |-> "none"]
ErrorBody == [kind |-> "error"]                  \* a JSON error payload
HtmlBody == [kind |-> "html"]                    \* a page, not JSON
TaskBody(t) == [kind |-> "task", task |-> t]
ListBody(ts) == [kind |-> "list", tasks |-> ts]

Request(method, route, path, body) ==
    [method |-> method, route |-> route, path |-> path, body |-> body]

Response(status, body) == [status |-> status, body |-> body]

NoRequest == Request("NONE", "", <<>>, NoBody)
NoResponse == Response(0, NoBody)

\* the handler of `method route` is about to run
Handling(method, route) ==
    /\ req.method = method
    /\ req.route = route
    /\ resp = NoResponse

(***************************************************************************)
(* The Express server (server.js).                                         *)
(***************************************************************************)
A101 == Rep("a", MaxTitleLen + 1)

\* titles a POST body carries
PostTitles ==
    {Undefined, Null, Number5, Str(<<>>), Str(<<" ">>), Str(<<"a">>),
     Str(<<" ", "a", " ">>), Str(A101)}

\* titles and completed flags a PUT body carries
PutTitles == {Undefined, Str(<<>>), Str(<<" ", "b", " ">>)}
PutCompleteds == {Undefined, Null, Bool(TRUE), Bool(FALSE)}

\* a JSON body; `id` and `createdAt` are keys no route reads
AppBody(title, completed) ==
    [title |-> title, completed |-> completed, id |-> Undefined, createdAt |-> Undefined]

\* the body with an id and a creation time of the client's choosing
WithIds(body) == [body EXCEPT !.id = Number5, !.createdAt = Str(<<"2", "0", "2", "0">>)]

\* path segments of the id-scoped routes
IdParams ==
    {IdStr(i) : i \in 1..(MaxId + 1)}
        \cup {<<"a", "b", "c">>, <<"1", "a", "b", "c">>, <<"1", ".", "5">>}

AppRequests ==
    {Request("GET", "/api/tasks", <<>>, NoBody)}
        \cup {Request("POST", "/api/tasks", <<>>, AppBody(t, Undefined)) : t \in PostTitles}
        \cup {Request("POST", "/api/tasks", <<>>, WithIds(AppBody(Str(<<"a">>), Bool(TRUE))))}
        \cup {Request("PUT", "/api/tasks/:id", p, AppBody(t, c)) :
                 p \in IdParams, t \in PutTitles, c \in PutCompleteds}
        \cup {Request("PUT", "/api/tasks/:id", p, WithIds(AppBody(t, Undefined))) :
                 p \in IdParams, t \in {Undefined, Str(<<" ", "b", " ">>)}}
        \cup {Request("DELETE", "/api/tasks/:id", p, NoBody) : p \in IdParams}
        \cup {Request("GET", "/api/tasks/:id", p, NoBody) : p \in IdParams}

\* tasks.find(t => t.id === id) / tasks.findIndex(t => t.id === id): the index of
\* the first match, 0 when there is none (NaN === x is false for every x)
FindIndex(ts, id) ==
    IF id.nan \/ ~\E i \in 1..Len(ts) : ts[i].id = id.n THEN 0
    ELSE CHOOSE i \in 1..Len(ts) : ts[i].id = id.n /\ \A j \in 1..(i - 1) : ts[j].id # id.n

\* tasks.splice(idx): without a count, everything from idx on is removed
SpliceRest(ts, idx) == SubSeq(ts, 1, idx - 1)

\* tasks.splice(idx, 1)
Splice(ts, idx) == SubSeq(ts, 1, idx - 1) \o SubSeq(ts, idx + 1, Len(ts))

\* app.get('/api/tasks')
AppGetTasks ==
    /\ variant = "express"
    /\ Handling("GET", "/api/tasks")
    /\ resp' = Response(200, ListBody(tasks))
    /\ UNCHANGED <<fixed, req, store, clock, createdIds, deletedIds>>

\* line 21: the title is rejected when it is falsy or blank
PostRejectsFalsyOnly(title) == ~Truthy(title)
PostRejects(title) == ~Truthy(title) \/ Trim(title.s) = <<>>

\* line 22: the id of the new task; nextId++ yields the value before the increment
PostIdFromLength == Len(tasks) + 1
PostId == nextId

\* app.post('/api/tasks') with the id taken before the title is checked
AppPostIdFirst ==
    /\ variant = "express"
    /\ Handling("POST", "/api/tasks")
    /\ nextId' = nextId + 1
    /\ IF ~Truthy(req.body.title) \/ req.body.title.kind # "string"
             \/ Trim(req.body.title.s) = <<>>
       THEN /\ resp' = Response(400, ErrorBody)
            /\ UNCHANGED <<tasks, clock, createdIds>>
       ELSE LET task == [id |-> nextId, title |-> Str(Trim(req.body.title.s)),
                         completed |-> FALSE, createdAt |-> clock]
            IN  /\ tasks' = Append(tasks, task)
                /\ clock' = clock + 1
                /\ createdIds' = Append(createdIds, task.id)
                /\ resp' = Response(201, TaskBody(task))
    /\ UNCHANGED <<fixed, req, repository, sequence, deletedIds>>

\* line 22: the new task, and the new task with `completed: !!title`
NewTaskCompleted(title) ==
    [id |-> PostId, title |-> Str(Trim(title.s)), completed |-> Truthy(title),
     createdAt |-> clock]
NewTaskWithBodyId(title) ==
    [id |-> IF req.body.id # Undefined THEN 5 ELSE PostId, title |-> Str(Trim(title.s)),
     completed |-> FALSE, createdAt |-> clock]
NewTask(title) ==
    [id |-> PostId, title |-> Str(Trim(title.s)), completed |-> FALSE, createdAt |-> clock]

\* line 23: tasks.push(task), and tasks.unshift(task) in its place
Unshift(ts, task) == <<task>> \o ts
Push(ts, task) == Append(ts, task)

\* app.post('/api/tasks')
AppPost ==
    /\ variant = "express"
    /\ Handling("POST", "/api/tasks")
    /\ LET title == req.body.title
       IN  IF Truthy(title) /\ title.kind # "string"
           THEN \* title.trim is not a function: the TypeError reaches the default
                \* error handler of Express, which answers 500 with a page
                /\ resp' = Response(500, HtmlBody)
                /\ UNCHANGED <<tasks, nextId, clock, createdIds>>
           ELSE IF PostRejects(title)
           THEN /\ resp' = Response(400, ErrorBody)
                /\ UNCHANGED <<tasks, nextId, clock, createdIds>>
           ELSE LET task == NewTask(title)
                IN  /\ nextId' = nextId + 1
                    /\ tasks' = Push(tasks, task)
                    /\ clock' = clock + 1
                    /\ createdIds' = Append(createdIds, task.id)
                    /\ resp' = Response(201, TaskBody(task))
    /\ UNCHANGED <<fixed, req, repository, sequence, deletedIds>>

\* line 32, with the id of the body assigned as the title is
PutTitleAndId(task, body) ==
    LET t == IF body.title # Undefined THEN [task EXCEPT !.title = body.title] ELSE task
    IN  IF body.id # Undefined THEN [t EXCEPT !.id = 5] ELSE t

\* line 32: if (title !== undefined) task.title = title
PutTitle(task, body) ==
    IF body.title # Undefined THEN [task EXCEPT !.title = body.title] ELSE task

\* line 33: if (completed !== undefined) task.completed = !!completed
PutCompletedAlways(task, body) == [task EXCEPT !.completed = Truthy(body.completed)]
PutCompleted(task, body) ==
    IF body.completed # Undefined
    THEN [task EXCEPT !.completed = Truthy(body.completed)]
    ELSE task

\* app.put('/api/tasks/:id')
AppPut ==
    /\ variant = "express"
    /\ Handling("PUT", "/api/tasks/:id")
    /\ LET idx == FindIndex(tasks, ParseInt(req.path))
       IN  IF idx = 0
           THEN /\ resp' = Response(404, ErrorBody)
                /\ UNCHANGED tasks
           ELSE LET task == PutCompleted(PutTitle(tasks[idx], req.body), req.body)
                IN  /\ tasks' = [tasks EXCEPT ![idx] = task]
                    /\ resp' = Response(200, TaskBody(task))
    /\ UNCHANGED <<fixed, req, nextId, clock, repository, sequence, createdIds, deletedIds>>

\* app.delete('/api/tasks/:id') with the idx === -1 check after the splice:
\* splice(-1, 1) removes the last element
AppDeleteSpliceFirst ==
    /\ variant = "express"
    /\ Handling("DELETE", "/api/tasks/:id")
    /\ LET idx == FindIndex(tasks, ParseInt(req.path))
       IN  IF idx = 0
           THEN /\ tasks' = SubSeq(tasks, 1, Len(tasks) - 1)
                /\ resp' = Response(404, ErrorBody)
                /\ UNCHANGED deletedIds
           ELSE /\ tasks' = Splice(tasks, idx)
                /\ deletedIds' = deletedIds \cup {tasks[idx].id}
                /\ resp' = Response(200, TaskBody(tasks[idx]))
    /\ UNCHANGED <<fixed, req, nextId, clock, repository, sequence, createdIds>>

\* app.delete('/api/tasks/:id')
AppDelete ==
    /\ variant = "express"
    /\ Handling("DELETE", "/api/tasks/:id")
    /\ LET idx == FindIndex(tasks, ParseInt(req.path))
       IN  IF idx = 0
           THEN /\ resp' = Response(404, ErrorBody)
                /\ UNCHANGED <<tasks, deletedIds>>
           ELSE /\ tasks' = Splice(tasks, idx)
                /\ deletedIds' = deletedIds \cup {tasks[idx].id}
                /\ resp' = Response(200, TaskBody(tasks[idx]))
    /\ UNCHANGED <<fixed, req, nextId, clock, repository, sequence, createdIds>>

\* app.get('*'): a GET no earlier route matched, GET /api/tasks/:id among them,
\* is answered with public/index.html
AppGetStar ==
    /\ variant = "express"
    /\ Handling("GET", "/api/tasks/:id")
    /\ resp' = Response(200, HtmlBody)
    /\ UNCHANGED <<fixed, req, store, clock, createdIds, deletedIds>>

(***************************************************************************)
(* The Spring Boot backend: the Task entity and the TaskRepository.        *)
(* Their sources are not at hand; they are modelled from the               *)
(* specification (data model, validation rules), the README and the tests. *)
(***************************************************************************)
Absent == "absent"              \* the key is not in the JSON body
NoDate == "null"                \* dueDate == null
NoStatus == "null"              \* status == null
TaskStatus == {"TODO", "IN_PROGRESS", "DONE"}

A100 == Rep("a", MaxTitleLen)
D501 == Rep("d", MaxDescLen + 1)
D256 == Rep("d", DbDescLen + 1)

\* a JSON body; `id` is 0 when the body has no such key
CtlBody(title, description, status, dueDate) ==
    [title |-> title, description |-> description, status |-> status, dueDate |-> dueDate,
     id |-> 0]

\* the body with an id of the client's choosing
WithId(body) == [body EXCEPT !.id = 5]

\* bodies every constraint accepts
GoodBodies ==
    {CtlBody(Str(<<"a">>), d, s, due) :
        d \in {Undefined, Str(<<"d">>)}, s \in {Absent, "DONE"}, due \in {Absent, "2025-12-31"}}
      \cup {CtlBody(Str(A100), Undefined, "IN_PROGRESS", Absent),
            CtlBody(Str(<<" ", "a", " ">>), Str(<<" ", "d", " ">>), Absent, Absent),
            CtlBody(Str(<<"a">>), Null, "DONE", NoDate)}

\* bodies some constraint refuses: of the entity, of the enum, of the table
BadBodies ==
    {CtlBody(Undefined, Str(<<"d">>), "TODO", Absent),
     CtlBody(Str(<<>>), Undefined, "TODO", Absent),
     CtlBody(Str(<<" ">>), Undefined, "TODO", Absent),
     CtlBody(Str(A101), Undefined, "TODO", Absent),
     CtlBody(Str(<<"a">>), Str(D501), "TODO", Absent),
     CtlBody(Str(<<"a">>), Undefined, "INVALID_STATUS", Absent),
     CtlBody(Str(<<"a">>), Undefined, NoStatus, Absent),
     CtlBody(Str(<<"a">>), Str(D256), "TODO", Absent)}

CtlBodies == GoodBodies \cup BadBodies

\* a body may name an id: another one than that of the path of a PUT, or one of
\* the client's choosing in a POST
CtlPutBodies ==
    CtlBodies \cup {WithId(CtlBody(Str(<<"a">>), Str(<<"d">>), "DONE", Absent))}

CtlIdParams == {IdStr(i) : i \in 1..(MaxId + 1)} \cup {<<"a", "b", "c">>}

CtlRequests ==
    {Request("GET", "/api/tasks", <<>>, NoBody)}
        \cup {Request("POST", "/api/tasks", <<>>, b) : b \in CtlPutBodies}
        \cup {Request("PUT", "/api/tasks/{id}", p, b) : p \in CtlIdParams, b \in CtlPutBodies}
        \cup {Request("DELETE", "/api/tasks/{id}", p, NoBody) : p \in CtlIdParams}
        \cup {Request("GET", "/api/tasks/{id}", p, NoBody) : p \in CtlIdParams}

\* @PathVariable Long id: the whole segment must be a decimal number
ParseLong(s) ==
    IF s # <<>> /\ \A i \in 1..Len(s) : IsDigit(s[i])
    THEN [nan |-> FALSE, n |-> DecimalValue(s)]
    ELSE [nan |-> TRUE, n |-> 0]

\* the body can be read as a Task: status, when given, is null or names a TaskStatus
Readable(body) == body.status \in TaskStatus \cup {Absent, NoStatus}

\* Task.setTitle / Task.setDescription: the text is stored trimmed
SetText(v) == IF v.kind = "string" THEN Str(Trim(v.s)) ELSE Null

\* the Task a @RequestBody is read as: status defaults to TODO, the rest to null
Incoming(body) ==
    [id |-> 0,
     title |-> SetText(body.title),
     description |-> SetText(body.description),
     status |-> IF body.status = Absent THEN "TODO" ELSE body.status,
     dueDate |-> IF body.dueDate = Absent THEN NoDate ELSE body.dueDate]

\* the constraints @Valid checks: title not blank and at most 100 characters,
\* description at most 500 characters, status not null
Valid(task) ==
    /\ task.status \in TaskStatus
    /\ task.title.kind = "string"
    /\ Len(task.title.s) >= 1
    /\ Len(task.title.s) <= MaxTitleLen
    /\ task.description.kind = "string" => Len(task.description.s) <= MaxDescLen

\* the table takes the row: the description column holds 255 characters
Storable(task) ==
    task.description.kind = "string" => Len(task.description.s) <= DbDescLen

\* repository.findById(id): the index of the row, 0 when there is none
FindById(id) ==
    IF \E i \in 1..Len(repository) : repository[i].id = id
    THEN CHOOSE i \in 1..Len(repository) : repository[i].id = id
    ELSE 0

(***************************************************************************)
(* TaskController.                                                         *)
(***************************************************************************)
\* TaskController.all
CtlAll ==
    /\ variant = "jpa"
    /\ Handling("GET", "/api/tasks")
    /\ resp' = Response(200, ListBody(repository))
    /\ UNCHANGED <<fixed, req, store, clock, createdIds, deletedIds>>

\* TaskController.getById
CtlGetById ==
    /\ variant = "jpa"
    /\ Handling("GET", "/api/tasks/{id}")
    /\ LET id == ParseLong(req.path)
       IN  IF id.nan THEN resp' = Response(400, ErrorBody)
           ELSE IF FindById(id.n) = 0 THEN resp' = Response(404, NoBody)
           ELSE resp' = Response(200, TaskBody(repository[FindById(id.n)]))
    /\ UNCHANGED <<fixed, req, store, clock, createdIds, deletedIds>>

\* TaskController.create; repository.save gives a new row the next id of the
\* table's generator and fails when the table does not take the row
CtlCreate ==
    /\ variant = "jpa"
    /\ Handling("POST", "/api/tasks")
    /\ LET task == Incoming(req.body)
           saved == [task EXCEPT !.id = sequence]
       IN  IF ~Readable(req.body) \/ ~Valid(task)
           THEN /\ resp' = Response(400, ErrorBody)
                /\ UNCHANGED <<repository, sequence, createdIds>>
           ELSE IF ~Storable(task)
           THEN /\ resp' = Response(500, ErrorBody)
                /\ UNCHANGED <<repository, sequence, createdIds>>
           ELSE /\ repository' = Append(repository, saved)
                /\ sequence' = sequence + 1
                /\ createdIds' = Append(createdIds, saved.id)
                /\ resp' = Response(201, TaskBody(saved))
    /\ UNCHANGED <<fixed, req, tasks, nextId, clock, deletedIds>>

\* lines 46-49: the four setters, with a null description or due date left as it was
SetFieldsNonNull(existing, incoming) ==
    [existing EXCEPT
        !.title = incoming.title,
        !.description = IF incoming.description = Null THEN @ ELSE incoming.description,
        !.status = incoming.status,
        !.dueDate = IF incoming.dueDate = NoDate THEN @ ELSE incoming.dueDate]

\* lines 46-49: existing.setTitle(incoming.getTitle()) and the three setters after it
SetFields(existing, incoming) ==
    [existing EXCEPT
        !.title = incoming.title,
        !.description = incoming.description,
        !.status = incoming.status,
        !.dueDate = incoming.dueDate]

\* TaskController.update without @Valid on the body
CtlUpdateUnchecked ==
    /\ variant = "jpa"
    /\ Handling("PUT", "/api/tasks/{id}")
    /\ LET id == ParseLong(req.path)
           idx == FindById(id.n)
           incoming == Incoming(req.body)
       IN  IF id.nan \/ ~Readable(req.body)
           THEN /\ resp' = Response(400, ErrorBody)
                /\ UNCHANGED repository
           ELSE IF idx = 0
           THEN /\ resp' = Response(404, NoBody)
                /\ UNCHANGED repository
           ELSE LET existing == SetFields(repository[idx], incoming)
                IN  IF ~Storable(existing)
                    THEN /\ resp' = Response(500, ErrorBody)
                         /\ UNCHANGED repository
                    ELSE /\ repository' = [repository EXCEPT ![idx] = existing]
                         /\ resp' = Response(200, TaskBody(existing))
    /\ UNCHANGED <<fixed, req, tasks, nextId, clock, sequence, createdIds, deletedIds>>

\* TaskController.update
CtlUpdate ==
    /\ variant = "jpa"
    /\ Handling("PUT", "/api/tasks/{id}")
    /\ LET id == ParseLong(req.path)
           idx == FindById(id.n)
           incoming == Incoming(req.body)
       IN  IF id.nan \/ ~Readable(req.body) \/ ~Valid(incoming)
           THEN /\ resp' = Response(400, ErrorBody)
                /\ UNCHANGED repository
           ELSE IF idx = 0
           THEN /\ resp' = Response(404, NoBody)
                /\ UNCHANGED repository
           ELSE LET existing == SetFields(repository[idx], incoming)
                IN  IF ~Storable(existing)
                    THEN /\ resp' = Response(500, ErrorBody)
                         /\ UNCHANGED repository
                    ELSE /\ repository' = [repository EXCEPT ![idx] = existing]
                         /\ resp' = Response(200, TaskBody(existing))
    /\ UNCHANGED <<fixed, req, tasks, nextId, clock, sequence, createdIds, deletedIds>>

\* TaskController.delete
CtlDelete ==
    /\ variant = "jpa"
    /\ Handling("DELETE", "/api/tasks/{id}")
    /\ LET id == ParseLong(req.path)
           idx == FindById(id.n)
       IN  IF id.nan
           THEN /\ resp' = Response(400, ErrorBody)
                /\ UNCHANGED <<repository, deletedIds>>
           ELSE IF idx = 0
           THEN /\ resp' = Response(404, NoBody)
                /\ UNCHANGED <<repository, deletedIds>>
           ELSE /\ repository' = Splice(repository, idx)
                /\ deletedIds' = deletedIds \cup {id.n}
                /\ resp' = Response(204, NoBody)
    /\ UNCHANGED <<fixed, req, tasks, nextId, clock, sequence, createdIds>>

(***************************************************************************)
(* TaskController under two concurrent requests.  Each request is handled  *)
(* by a thread of its own; the controller methods are not transactional,   *)
(* so every call of the repository is a transaction of its own and the     *)
(* calls of two requests interleave.  `threads.base` is the table as it    *)
(* was when the two requests arrived.                                      *)
(***************************************************************************)
Threads == {1, 2}

IdleThread == [req |-> NoRequest, pc |-> "idle", existing |-> NoBody, resp |-> NoResponse]

InitialThreads == [base |-> <<<<>>, 1>>, t |-> [i \in Threads |-> IdleThread]]

ConcRequests ==
    {Request("GET", "/api/tasks", <<>>, NoBody),
     Request("POST", "/api/tasks", <<>>, CtlBody(Str(<<"a">>), Undefined, Absent, Absent)),
     Request("PUT", "/api/tasks/{id}", IdStr(1),
             CtlBody(Str(<<"a">>), Str(<<"d">>), "DONE", Absent)),
     Request("PUT", "/api/tasks/{id}", IdStr(1),
             CtlBody(Str(<<"b">>), Undefined, "IN_PROGRESS", Absent)),
     Request("PUT", "/api/tasks/{id}", IdStr(1),
             CtlBody(Str(<<>>), Undefined, "TODO", Absent)),
     Request("DELETE", "/api/tasks/{id}", IdStr(1), NoBody),
     Request("GET", "/api/tasks/{id}", IdStr(1), NoBody)}

\* findById on a table given as a value
RowOf(rows, id) ==
    IF \E i \in 1..Len(rows) : rows[i].id = id
    THEN CHOOSE i \in 1..Len(rows) : rows[i].id = id
    ELSE 0

Outcome(rows, seq, response) == [rows |-> rows, seq |-> seq, resp |-> response]

\* a request handled on its own: the table and the response it ends with
Serve(rows, seq, r) ==
    LET id == ParseLong(r.path)
        idx == RowOf(rows, id.n)
    IN  CASE r.method = "GET" /\ r.route = "/api/tasks" ->
                 Outcome(rows, seq, Response(200, ListBody(rows)))
          [] r.method = "GET" /\ r.route = "/api/tasks/{id}" ->
                 IF id.nan THEN Outcome(rows, seq, Response(400, ErrorBody))
                 ELSE IF idx = 0 THEN Outcome(rows, seq, Response(404, NoBody))
                 ELSE Outcome(rows, seq, Response(200, TaskBody(rows[idx])))
          [] r.method = "POST" ->
                 LET task == Incoming(r.body)
                     saved == [task EXCEPT !.id = seq]
                 IN  IF ~Readable(r.body) \/ ~Valid(task)
                     THEN Outcome(rows, seq, Response(400, ErrorBody))
                     ELSE IF ~Storable(task)
                     THEN Outcome(rows, seq, Response(500, ErrorBody))
                     ELSE Outcome(Append(rows, saved), seq + 1, Response(201, TaskBody(saved)))
          [] r.method = "PUT" ->
                 LET incoming == Incoming(r.body)
                 IN  IF id.nan \/ ~Readable(r.body) \/ ~Valid(incoming)
                     THEN Outcome(rows, seq, Response(400, ErrorBody))
                     ELSE IF idx = 0 THEN Outcome(rows, seq, Response(404, NoBody))
                     ELSE LET existing == SetFields(rows[idx], incoming)
                          IN  IF ~Storable(existing)
                              THEN Outcome(rows, seq, Response(500, ErrorBody))
                              ELSE Outcome([rows EXCEPT ![idx] = existing], seq,
                                           Response(200, TaskBody(existing)))
          [] r.method = "DELETE" ->
                 IF id.nan THEN Outcome(rows, seq, Response(400, ErrorBody))
                 ELSE IF idx = 0 THEN Outcome(rows, seq, Response(404, NoBody))
                 ELSE Outcome(Splice(rows, idx), seq, Response(204, NoBody))

\* two requests arrive while none is being handled
ConcStart(r1, r2) ==
    /\ variant = "jpa"
    /\ \A i \in Threads : threads.t[i].pc = "idle"
    /\ sequence + Cardinality({i \in Threads : <<r1, r2>>[i].method = "POST"}) <= MaxId + 1
    /\ threads' = [base |-> <<repository, sequence>>,
                   t |-> [i \in Threads |->
                            [IdleThread EXCEPT !.req = <<r1, r2>>[i], !.pc = "start"]]]
    /\ UNCHANGED <<beyondThreads, repository, sequence>>

\* all, getById, create: one call of the repository at most
ConcRun(i) ==
    /\ threads.t[i].pc = "start"
    /\ threads.t[i].req.method \in {"GET", "POST"}
    /\ LET out == Serve(repository, sequence, threads.t[i].req)
       IN  /\ repository' = out.rows
           /\ sequence' = out.seq
           /\ threads' = [threads EXCEPT !.t[i].pc = "done", !.t[i].resp = out.resp]
    /\ UNCHANGED beyondThreads

\* update and delete, first call: repository.findById(id); update goes on to the
\* four setters, on the Task that findById returned
ConcFind(i) ==
    /\ threads.t[i].pc = "start"
    /\ threads.t[i].req.method \in {"PUT", "DELETE"}
    /\ LET r == threads.t[i].req
           out == Serve(repository, sequence, r)
           idx == RowOf(repository, ParseLong(r.path).n)
       IN  IF out.resp.status \in {400, 404}
           THEN threads' = [threads EXCEPT !.t[i].pc = "done", !.t[i].resp = out.resp]
           ELSE IF r.method = "PUT"
           THEN threads' = [threads EXCEPT
                               !.t[i].pc = "save",
                               !.t[i].existing = SetFields(repository[idx], Incoming(r.body))]
           ELSE threads' = [threads EXCEPT !.t[i].pc = "deleteById"]
    /\ UNCHANGED <<beyondThreads, repository, sequence>>

\* update, second call: repository.save(existing).  When the row is gone the
\* outcome depends on whether the Task is still attached to the session: the
\* UPDATE finds no row and the request fails, or the Task is merged as a new row
ConcSave(i) ==
    /\ threads.t[i].pc = "save"
    /\ LET existing == threads.t[i].existing
           idx == RowOf(repository, existing.id)
           merged == [existing EXCEPT !.id = sequence]
       IN  IF ~Storable(existing)
           THEN /\ threads' = [threads EXCEPT !.t[i].pc = "done",
                                              !.t[i].resp = Response(500, ErrorBody)]
                /\ UNCHANGED <<repository, sequence>>
           ELSE IF idx # 0
           THEN /\ repository' = [repository EXCEPT ![idx] = existing]
                /\ threads' = [threads EXCEPT !.t[i].pc = "done",
                                              !.t[i].resp = Response(200, TaskBody(existing))]
                /\ UNCHANGED sequence
           ELSE \/ /\ threads' = [threads EXCEPT !.t[i].pc = "done",
                                                 !.t[i].resp = Response(500, ErrorBody)]
                   /\ UNCHANGED <<repository, sequence>>
                \/ /\ repository' = Append(repository, merged)
                   /\ sequence' = sequence + 1
                   /\ threads' = [threads EXCEPT !.t[i].pc = "done",
                                                 !.t[i].resp = Response(200, TaskBody(merged))]
    /\ UNCHANGED beyondThreads

\* delete, second call: repository.deleteById(id).  When the row is gone it does
\* nothing (testDeleteById_NonExistent) or, the Task being still attached to the
\* session, its DELETE finds no row and the request fails
ConcDeleteById(i) ==
    /\ threads.t[i].pc = "deleteById"
    /\ LET idx == RowOf(repository, ParseLong(threads.t[i].req.path).n)
       IN  IF idx # 0
           THEN /\ repository' = Splice(repository, idx)
                /\ threads' = [threads EXCEPT !.t[i].pc = "done",
                                              !.t[i].resp = Response(204, NoBody)]
           ELSE /\ UNCHANGED repository
                /\ \E status \in {204, 500} :
                       threads' = [threads EXCEPT
                                      !.t[i].pc = "done",
                                      !.t[i].resp = Response(status,
                                          IF status = 204 THEN NoBody ELSE ErrorBody)]
    /\ UNCHANGED <<beyondThreads, sequence>>

\* both responses are sent
ConcFinish ==
    /\ \A i \in Threads : threads.t[i].pc = "done"
    /\ threads' = [threads EXCEPT !.t = [i \in Threads |-> IdleThread]]
    /\ UNCHANGED <<beyondThreads, repository, sequence>>

(***************************************************************************)
(* The TaskForm component (frontend).  `form` holds its six pieces of      *)
(* state, the initialTask prop, the call of onSave that has not settled,   *)
(* and, as history, the number of calls of onSave, the last argument and   *)
(* how the last call settled.                                              *)
(***************************************************************************)
MaxSaves == 2         \* onSave is called at most MaxSaves times

NoErrors == [title |-> "", description |-> ""]

NoTask == [kind |-> "none"]     \* initialTask: null; also: no call, no argument

\* useState('') ... useState(false), lines 356-361
InitialForm ==
    [title |-> <<>>, description |-> <<>>, status |-> "TODO", dueDate |-> "",
     errors |-> NoErrors, isSubmitting |-> FALSE,
     initialTask |-> NoTask, pending |-> NoTask, saves |-> 0, lastSaved |-> NoTask,
     settled |-> "none"]

\* values the inputs take
FormTitles == {<<>>, <<" ">>, <<" ", "a", " ">>, A101}
FormDescriptions == {<<>>, <<" ">>, <<" ", "d", " ">>, D501}
FormDates == {"", "2025-12-31"}

\* the task the parent hands over for editing
EditedTask ==
    [kind |-> "task", title |-> <<"e">>, description |-> Undefined, status |-> "DONE",
     dueDate |-> NoDate]

\* onChange of the four inputs
FormChangeTitle(v) ==
    /\ form' = [form EXCEPT !.title = v]
    /\ UNCHANGED beyondForm

FormChangeDescription(v) ==
    /\ form' = [form EXCEPT !.description = v]
    /\ UNCHANGED beyondForm

FormChangeStatus(v) ==
    /\ form' = [form EXCEPT !.status = v]
    /\ UNCHANGED beyondForm

FormChangeDueDate(v) ==
    /\ form' = [form EXCEPT !.dueDate = v]
    /\ UNCHANGED beyondForm

\* resetForm
ResetForm(f) ==
    [f EXCEPT !.title = <<>>, !.description = <<>>, !.status = "TODO", !.dueDate = "",
              !.errors = NoErrors]

\* validate without the two checks of the length
ValidateRequiredOnly(title, description) ==
    [title |-> IF Trim(title) = <<>> THEN "Title is required" ELSE "",
     description |-> ""]

\* validate: the errors it finds; a later check of a field overwrites an earlier one
Validate(title, description) ==
    [title |-> IF Len(title) > MaxTitleLen THEN "Title must be 100 characters or less"
               ELSE IF Trim(title) = <<>> THEN "Title is required"
               ELSE "",
     description |-> IF Len(description) > MaxDescLen
                     THEN "Description must be 500 characters or less"
                     ELSE ""]

\* the argument of onSave with the texts as they were typed
FormTaskUntrimmed(f) ==
    [kind |-> "task",
     title |-> f.title,
     description |-> IF f.description = <<>> THEN Undefined ELSE Str(f.description),
     status |-> f.status,
     dueDate |-> IF f.dueDate = "" THEN NoDate ELSE f.dueDate]

\* the argument of onSave, lines 397-402
FormTask(f) ==
    [kind |-> "task",
     title |-> Trim(f.title),
     description |-> IF Trim(f.description) = <<>> THEN Undefined
                     ELSE Str(Trim(f.description)),
     status |-> f.status,
     dueDate |-> IF f.dueDate = "" THEN NoDate ELSE f.dueDate]

\* validate accepts the input of the form
Accepted(f) == Validate(f.title, f.description) = NoErrors

\* the form after handleSubmit has run up to `await onSave(task)`
Submitted(f) ==
    IF ~Accepted(f)
    THEN [f EXCEPT !.errors = Validate(f.title, f.description)]
    ELSE [f EXCEPT !.errors = NoErrors,
                   !.isSubmitting = TRUE,
                   !.pending = [kind |-> "call", initialTask |-> f.initialTask],
                   !.saves = @ + 1,
                   !.lastSaved = FormTask(f),
                   !.settled = "none"]

\* handleSubmit, up to `await onSave(task)`; the submit button is disabled while
\* isSubmitting
FormSubmit ==
    /\ ~form.isSubmitting
    /\ Accepted(form) => form.saves < MaxSaves
    /\ form' = Submitted(form)
    /\ UNCHANGED beyondForm

\* handleSubmit after the await, without `finally`: isSubmitting is cleared only
\* when onSave fulfilled
AfterSaveNoFinally(f, fulfilled) ==
    LET g == IF fulfilled /\ f.pending.initialTask = NoTask THEN ResetForm(f) ELSE f
    IN  [g EXCEPT !.isSubmitting = IF fulfilled THEN FALSE ELSE @,
                  !.pending = NoTask,
                  !.settled = IF fulfilled THEN "fulfilled" ELSE "rejected"]

\* handleSubmit after the await, lines 404-407: the form is reset when onSave
\* fulfilled and the form was not editing a task when it was submitted (the
\* initialTask of that render); isSubmitting is cleared whether it fulfilled or not
AfterSave(f, fulfilled) ==
    LET g == IF fulfilled /\ f.pending.initialTask = NoTask THEN ResetForm(f) ELSE f
    IN  [g EXCEPT !.isSubmitting = FALSE,
                  !.pending = NoTask,
                  !.settled = IF fulfilled THEN "fulfilled" ELSE "rejected"]

\* onSave settles
FormSettle(fulfilled) ==
    /\ form.pending # NoTask
    /\ form' = AfterSave(form, fulfilled)
    /\ UNCHANGED beyondForm

\* handleCancel; the button is rendered when onCancel is given
FormCancel ==
    /\ form' = ResetForm(form)
    /\ UNCHANGED beyondForm

\* the parent renders the form with another initialTask and the effect runs
FormInitialTask(t) ==
    /\ t # form.initialTask
    /\ form' = IF t # NoTask
               THEN [form EXCEPT !.initialTask = t,
                                 !.title = t.title,
                                 !.description = IF Truthy(t.description)
                                                 THEN t.description.s ELSE <<>>,
                                 !.status = t.status,
                                 !.dueDate = IF t.dueDate = NoDate THEN "" ELSE t.dueDate]
               ELSE [ResetForm(form) EXCEPT !.initialTask = t]
    /\ UNCHANGED beyondForm

(***************************************************************************)
(* The App component (frontend).  `app` holds its five pieces of state and *)
(* the requests it has sent and not yet seen answered.                     *)
(***************************************************************************)
\* useState([]) ... useState(false), lines 21-25; editingId 0 and error "" are null.
\* loads are the answers under way to the GETs in flight, in the order the GETs were
\* sent; save and delete are the PUT or POST and the DELETE in flight.  History:
\* latest is the answer to the GET sent last (none when that GET failed), newest
\* says that this GET is still in flight, last is the request that completed last.
InitialApp ==
    [tasks |-> <<>>, editingId |-> 0, error |-> "", sortBy |-> "none", isLoading |-> FALSE,
     mounted |-> FALSE, loads |-> <<>>, latest |-> NoBody, save |-> NoRequest,
     delete |-> NoRequest, last |-> [method |-> "NONE", ok |-> TRUE], newest |-> FALSE]

SortBys == {"none", "status", "dueDate"}

MaxLoads == 2         \* at most MaxLoads GET /tasks are in flight

LoadFailed == "Failed to load tasks. Please try again."
SaveFailed == "Failed to save task. Please check your input."
DeleteFailed == "Failed to delete task. Please try again."

\* editingTask is undefined: editingId is set and no loaded task has that id
NotFound == [kind |-> "undefined"]

\* a loaded task as the form reads it
AsTask(row) ==
    [kind |-> "task", title |-> row.title.s, description |-> row.description,
     status |-> row.status, dueDate |-> row.dueDate]

\* line 93: editingId ? tasks.find(t => t.id === editingId) : null
EditingTask(a) ==
    IF a.editingId = 0 THEN NoTask
    ELSE IF \E i \in 1..Len(a.tasks) : a.tasks[i].id = a.editingId
    THEN AsTask(a.tasks[CHOOSE i \in 1..Len(a.tasks) : a.tasks[i].id = a.editingId])
    ELSE NotFound

\* App renders TaskForm with initialTask={editingTask}; the effect of TaskForm runs
\* when initialTask is another value than in the render before: `fresh` says that
\* the task, if there is one, is another object (another id, or a reloaded list)
Rendered(f, a, fresh) ==
    LET t == EditingTask(a)
    IN  IF t.kind = "task" /\ (fresh \/ f.initialTask.kind # "task")
        THEN [f EXCEPT !.initialTask = t,
                       !.title = t.title,
                       !.description = IF Truthy(t.description) THEN t.description.s
                                       ELSE <<>>,
                       !.status = t.status,
                       !.dueDate = IF t.dueDate = NoDate THEN "" ELSE t.dueDate]
        ELSE IF t.kind # "task" /\ t # f.initialTask
        THEN [ResetForm(f) EXCEPT !.initialTask = t]
        ELSE f

\* the answer to GET /tasks of a server whose table is rows
GetTasks(rows) == Serve(rows, sequence, Request("GET", "/api/tasks", <<>>, NoBody)).resp.body

\* load, lines 28-31, up to the await; the server answers with the table as it is
\* when the request is sent
Loading(a, rows) ==
    [a EXCEPT !.isLoading = TRUE, !.error = "", !.loads = Append(@, GetTasks(rows)),
              !.latest = GetTasks(rows), !.newest = TRUE]

\* useEffect(() => { load() }, [load]): the component is mounted
AppMount ==
    /\ ~app.mounted
    /\ app' = [Loading(app, repository) EXCEPT !.mounted = TRUE]
    /\ UNCHANGED <<variant, store, clock, req, resp, lastCreated, createdIds, deletedIds,
                   form, threads>>

\* load, lines 32-38: the response of one of the GETs in flight arrives, or the
\* request fails
AppLoadArrives(k, ok) ==
    /\ k \in 1..Len(app.loads)
    /\ LET rest == [app EXCEPT !.loads = SubSeq(@, 1, k - 1) \o SubSeq(@, k + 1, Len(@)),
                              !.isLoading = FALSE,
                              !.last = [method |-> "GET", ok |-> ok],
                              !.newest = @ /\ k # Len(app.loads),
                              !.latest = IF app.newest /\ k = Len(app.loads) /\ ~ok
                                         THEN NoBody ELSE @]
           a == IF ok THEN [rest EXCEPT !.tasks = app.loads[k].tasks]
                ELSE [rest EXCEPT !.error = LoadFailed]
       IN  /\ app' = a
           /\ form' = IF ok THEN Rendered(form, a, TRUE) ELSE form
    /\ UNCHANGED <<variant, store, clock, req, resp, lastCreated, createdIds, deletedIds,
                   threads>>

\* the ids of the tasks TaskList shows; it is rendered when no load is going on
Listed == IF app.isLoading THEN {} ELSE {app.tasks[i].id : i \in 1..Len(app.tasks)}

\* handleEdit
AppEdit(id) ==
    /\ id \in Listed
    /\ LET a == [app EXCEPT !.editingId = id]
       IN  /\ app' = a
           /\ form' = Rendered(form, a, id # app.editingId)
    /\ UNCHANGED <<variant, store, clock, req, resp, lastCreated, createdIds, deletedIds,
                   threads>>

\* handleCancel of TaskForm, which calls handleCancel of App; the button is there
\* when editingId is set
AppCancel ==
    /\ app.editingId # 0
    /\ LET a == [app EXCEPT !.editingId = 0]
       IN  /\ app' = a
           /\ form' = Rendered(ResetForm(form), a, FALSE)
    /\ UNCHANGED <<variant, store, clock, req, resp, lastCreated, createdIds, deletedIds,
                   threads>>

\* the body axios sends for the task of the form
JsonBody(task) == CtlBody(Str(task.title), task.description, task.status, task.dueDate)

\* handleSave that always posts
SaveRequestPost(a, task) == Request("POST", "/api/tasks", <<>>, JsonBody(task))

\* handleSave, lines 44-50, up to the await: PUT when editingId is set, else POST
SaveRequest(a, task) ==
    IF a.editingId # 0
    THEN Request("PUT", "/api/tasks/{id}", IdStr(a.editingId), JsonBody(task))
    ELSE Request("POST", "/api/tasks", <<>>, JsonBody(task))

\* the user types a title into the form App shows; the effect that loads the list
\* has run by then, right after the first render
AppChangeTitle(v) ==
    /\ app.mounted
    /\ FormChangeTitle(v)

\* handleSubmit of TaskForm with onSave={handleSave}
AppSubmit ==
    /\ app.mounted
    /\ ~form.isSubmitting
    /\ Accepted(form) =>
           /\ form.saves < MaxSaves
           /\ app.editingId = 0 => sequence <= MaxId
    /\ form' = Submitted(form)
    /\ app' = IF Accepted(form)
              THEN [app EXCEPT !.error = "", !.save = SaveRequest(app, FormTask(form))]
              ELSE app
    /\ UNCHANGED <<variant, store, clock, req, resp, lastCreated, createdIds, deletedIds,
                   threads>>

\* what the server makes of a request that reaches it (ok), or the table as it is
\* with no response when the request fails on the way
Served(r, ok) ==
    IF ok THEN Serve(repository, sequence, r)
    ELSE Outcome(repository, sequence, NoResponse)

\* axios fulfils with a 2xx response and rejects otherwise
Fulfilled(out) == out.resp.status \in 200..299

\* handleSave, lines 47-52, after a fulfilled request: a PUT leaves edit mode; load()
Saved(a, rows) ==
    Loading([a EXCEPT !.save = NoRequest,
                      !.editingId = IF a.save.method = "PUT" THEN 0 ELSE @], rows)

\* handleSave that reloads after a rejected request too
NotSavedReload(a, rows) == Loading([a EXCEPT !.save = NoRequest, !.error = SaveFailed], rows)

\* handleSave, lines 53-56, after a rejected request: the error is set
NotSaved(a, rows) == [a EXCEPT !.save = NoRequest, !.error = SaveFailed]

\* the PUT or POST of handleSave is answered or fails; handleSave returns, and so
\* does the `await onSave(task)` of TaskForm: handleSave never rejects
AppSaveArrives(ok) ==
    /\ app.save # NoRequest
    /\ LET out == Served(app.save, ok)
           a == [(IF Fulfilled(out) THEN Saved(app, out.rows) ELSE NotSaved(app, out.rows))
                     EXCEPT !.last = [method |-> app.save.method, ok |-> Fulfilled(out)]]
       IN  /\ Fulfilled(out) => Len(app.loads) < MaxLoads
           /\ repository' = out.rows
           /\ sequence' = out.seq
           /\ app' = a
           /\ form' = Rendered(AfterSave(form, TRUE), a, FALSE)
    /\ UNCHANGED <<variant, tasks, nextId, clock, req, resp, lastCreated, createdIds,
                   deletedIds, threads>>

\* handleDelete, lines 61-64, up to the await, the user confirming
HandleDelete(id) ==
    /\ id \in Listed
    /\ app.delete = NoRequest
    /\ app' = [app EXCEPT !.error = "",
                          !.delete = Request("DELETE", "/api/tasks/{id}", IdStr(id), NoBody)]
    /\ UNCHANGED <<variant, store, clock, req, resp, lastCreated, createdIds, deletedIds,
                   form, threads>>

\* handleDelete, lines 65-68: the DELETE is answered or fails
HandleDeleteArrives(ok) ==
    /\ app.delete # NoRequest
    /\ LET out == Served(app.delete, ok)
           a == [(IF Fulfilled(out)
                  THEN Loading([app EXCEPT !.delete = NoRequest], out.rows)
                  ELSE [app EXCEPT !.delete = NoRequest, !.error = DeleteFailed])
                     EXCEPT !.last = [method |-> "DELETE", ok |-> Fulfilled(out)]]
       IN  /\ Fulfilled(out) => Len(app.loads) < MaxLoads
           /\ repository' = out.rows
           /\ sequence' = out.seq
           /\ app' = a
    /\ UNCHANGED <<variant, tasks, nextId, clock, req, resp, lastCreated, createdIds,
                   deletedIds, form, threads>>

\* onDismiss of ErrorBanner
AppDismiss ==
    /\ app.error # ""
    /\ app' = [app EXCEPT !.error = ""]
    /\ UNCHANGED <<variant, store, clock, req, resp, lastCreated, createdIds, deletedIds,
                   form, threads>>

\* line 82: const order = { TODO: 0, IN_PROGRESS: 1, DONE: 2 }
StatusOrder(status) ==
    CASE status = "TODO" -> 0
      [] status = "IN_PROGRESS" -> 1
      [] status = "DONE" -> 2

\* new Date(d).getTime() of the dates at hand, in days since 1970-01-01
GetTime(d) ==
    CASE d = "2025-12-01" -> 20423
      [] d = "2025-12-31" -> 20453

\* lines 86-87 with `0` for a task without due date
DueTimeOrZero(task) ==
    IF task.dueDate = NoDate THEN [infinite |-> FALSE, time |-> 0]
    ELSE [infinite |-> FALSE, time |-> GetTime(task.dueDate)]

\* lines 86-87: a.dueDate ? new Date(a.dueDate).getTime() : Infinity
DueTime(task) ==
    IF task.dueDate = NoDate THEN [infinite |-> TRUE, time |-> 0]
    ELSE [infinite |-> FALSE, time |-> GetTime(task.dueDate)]

\* the sign of a - b; Infinity - Infinity is NaN, which sort takes for 0
Minus(a, b) ==
    IF a.infinite /\ b.infinite THEN 0
    ELSE IF a.infinite THEN 1
    ELSE IF b.infinite THEN -1
    ELSE a.time - b.time

\* the comparator of lines 80-91
Compare(sortBy, a, b) ==
    IF sortBy = "status" THEN StatusOrder(a.status) - StatusOrder(b.status)
    ELSE IF sortBy = "dueDate" THEN Minus(DueTime(a), DueTime(b))
    ELSE 0

\* Array.prototype.sort is stable: an element goes before the first one of those
\* sorted so far that the comparator puts after it
RECURSIVE InsertSorted(_, _, _)
InsertSorted(sortBy, x, sorted) ==
    IF sorted = <<>> THEN <<x>>
    ELSE IF Compare(sortBy, x, Head(sorted)) < 0 THEN <<x>> \o sorted
    ELSE <<Head(sorted)>> \o InsertSorted(sortBy, x, Tail(sorted))

RECURSIVE Sort(_, _)
Sort(sortBy, ts) ==
    IF ts = <<>> THEN <<>>
    ELSE InsertSorted(sortBy, ts[Len(ts)], Sort(sortBy, SubSeq(ts, 1, Len(ts) - 1)))

\* const sortedTasks = [...tasks].sort(...)
SortedTasks == Sort(app.sortBy, app.tasks)

\* onChange of the sort select
AppSortBy(v) ==
    /\ app' = [app EXCEPT !.sortBy = v]
    /\ UNCHANGED <<variant, store, clock, req, resp, lastCreated, createdIds, deletedIds,
                   form, threads>>

(***************************************************************************)
(* Specification.                                                          *)
(***************************************************************************)
Init ==
    /\ variant \in {"express", "jpa"}
    /\ tasks = <<>>
    /\ nextId = 1
    /\ clock = 0
    /\ repository = <<>>
    /\ sequence = 1
    /\ req = NoRequest
    /\ resp = NoResponse
    /\ lastCreated = NoBody
    /\ createdIds = <<>>
    /\ deletedIds = {}
    /\ form = InitialForm
    /\ threads = InitialThreads
    /\ app = InitialApp

\* a request arrives; creates are explored while the next id is within the bound
Receive(r) ==
    /\ req = NoRequest
    /\ r.method = "POST" => (IF variant = "express" THEN nextId ELSE sequence) <= MaxId
    /\ req' = r
    /\ UNCHANGED <<fixed, store, clock, resp, createdIds, deletedIds>>

\* the response reaches the client
Deliver ==
    /\ resp # NoResponse
    /\ req' = NoRequest
    /\ resp' = NoResponse
    /\ lastCreated' = IF resp.status = 201 THEN resp.body ELSE NoBody
    /\ UNCHANGED <<variant, form, threads, app, store, clock, createdIds, deletedIds>>

Next ==
    \/ \E r \in AppRequests : variant = "express" /\ Receive(r)
    \/ AppGetTasks
    \/ AppPost
    \/ AppPut
    \/ AppDelete
    \/ AppGetStar
    \/ \E r \in CtlRequests : variant = "jpa" /\ Receive(r)
    \/ CtlAll
    \/ CtlGetById
    \/ CtlCreate
    \/ CtlUpdate
    \/ CtlDelete
    \/ Deliver

Spec == Init /\ [][Next]_vars

(***************************************************************************)
(* The same servers under few kinds of request and one more create: three  *)
(* tasks are stored when one of them is updated or deleted.                *)
(***************************************************************************)
ListIdParams == {IdStr(i) : i \in 1..(MaxId + 1)}

AppListRequests ==
    {Request("GET", "/api/tasks", <<>>, NoBody),
     Request("POST", "/api/tasks", <<>>, AppBody(Str(<<"a">>), Undefined))}
        \cup {Request("PUT", "/api/tasks/:id", p, AppBody(Str(<<"b">>), Bool(TRUE))) :
                 p \in ListIdParams}
        \cup {Request("DELETE", "/api/tasks/:id", p, NoBody) : p \in ListIdParams}
        \cup {Request("GET", "/api/tasks/:id", IdStr(1), NoBody)}

CtlListRequests ==
    {Request("GET", "/api/tasks", <<>>, NoBody),
     Request("POST", "/api/tasks", <<>>, CtlBody(Str(<<"a">>), Undefined, Absent, Absent))}
        \cup {Request("PUT", "/api/tasks/{id}", p,
                       CtlBody(Str(<<"a">>), Str(<<"d">>), "DONE", Absent)) :
                 p \in ListIdParams}
        \cup {Request("DELETE", "/api/tasks/{id}", p, NoBody) : p \in ListIdParams}
        \cup {Request("GET", "/api/tasks/{id}", IdStr(1), NoBody)}

ReceiveList(r) ==
    /\ req = NoRequest
    /\ r.method = "POST" => (IF variant = "express" THEN nextId ELSE sequence) <= MaxId + 1
    /\ req' = r
    /\ UNCHANGED <<fixed, store, clock, resp, createdIds, deletedIds>>

NextList ==
    \/ \E r \in AppListRequests : variant = "express" /\ ReceiveList(r)
    \/ AppGetTasks
    \/ AppPost
    \/ AppPut
    \/ AppDelete
    \/ AppGetStar
    \/ \E r \in CtlListRequests : variant = "jpa" /\ ReceiveList(r)
    \/ CtlAll
    \/ CtlGetById
    \/ CtlCreate
    \/ CtlUpdate
    \/ CtlDelete
    \/ Deliver

SpecList == Init /\ [][NextList]_vars

(***************************************************************************)
(* The Spring backend under pairs of concurrent requests.                  *)
(***************************************************************************)
NextConc ==
    \/ \E r1, r2 \in ConcRequests : ConcStart(r1, r2)
    \/ \E i \in Threads : ConcRun(i)
    \/ \E i \in Threads : ConcFind(i)
    \/ \E i \in Threads : ConcSave(i)
    \/ \E i \in Threads : ConcDeleteById(i)
    \/ ConcFinish

\* the Spring backend is deployed
InitJpa == Init /\ variant = "jpa"

SpecConc == InitJpa /\ [][NextConc]_vars

(***************************************************************************)
(* The sorted view of App on its own: any list of up to MaxSortLen tasks   *)
(* has been loaded.                                                        *)
(***************************************************************************)
MaxSortLen == 3       \* the loaded list has at most MaxSortLen tasks

SortDates == {NoDate, "2025-12-01", "2025-12-31"}

\* lists of tasks as GET /tasks returns them
SortLists ==
    UNION {{[i \in 1..n |-> [id |-> i, title |-> Str(<<"a">>), description |-> Null,
                             status |-> f[i][1], dueDate |-> f[i][2]]] :
               f \in [1..n -> TaskStatus \X SortDates]} : n \in 0..MaxSortLen}

InitSort ==
    /\ variant = "jpa"
    /\ tasks = <<>>
    /\ nextId = 1
    /\ clock = 0
    /\ repository = <<>>
    /\ sequence = 1
    /\ req = NoRequest
    /\ resp = NoResponse
    /\ lastCreated = NoBody
    /\ createdIds = <<>>
    /\ deletedIds = {}
    /\ form = InitialForm
    /\ threads = InitialThreads
    /\ app \in {[InitialApp EXCEPT !.tasks = ts, !.mounted = TRUE] : ts \in SortLists}

NextSort == \E v \in SortBys : AppSortBy(v)

SpecSort == InitSort /\ [][NextSort]_vars

(***************************************************************************)
(* App with its TaskForm, talking to the Spring backend.                   *)
(***************************************************************************)
AppTitles == {<<>>, <<" ", "a", " ">>}

NextApp ==
    \/ AppMount
    \/ \E k \in 1..MaxLoads, ok \in BOOLEAN : AppLoadArrives(k, ok)
    \/ \E id \in 1..MaxId : AppEdit(id)
    \/ AppCancel
    \/ \E v \in AppTitles : AppChangeTitle(v)
    \/ AppSubmit
    \/ \E ok \in BOOLEAN : AppSaveArrives(ok)
    \/ \E id \in 1..MaxId : HandleDelete(id)
    \/ \E ok \in BOOLEAN : HandleDeleteArrives(ok)
    \/ AppDismiss

SpecApp == InitJpa /\ [][NextApp]_vars

(***************************************************************************)
(* The form on its own: the backend is idle.                               *)
(***************************************************************************)
NextForm ==
    \/ \E v \in FormTitles : FormChangeTitle(v)
    \/ \E v \in FormDescriptions : FormChangeDescription(v)
    \/ \E v \in TaskStatus : FormChangeStatus(v)
    \/ \E v \in FormDates : FormChangeDueDate(v)
    \/ FormSubmit
    \/ \E fulfilled \in BOOLEAN : FormSettle(fulfilled)
    \/ FormCancel
    \/ \E t \in {NoTask, EditedTask} : FormInitialTask(t)

SpecForm == InitJpa /\ [][NextForm]_vars

(***************************************************************************)
(* Properties.                                                             *)
(***************************************************************************)
\* a route handler has answered the request in flight
Answered == resp # NoResponse

\* the step is the run of a route handler: it answers the request in flight
HandlerRuns == resp = NoResponse /\ resp' # NoResponse

IdScoped == req.route \in {"/api/tasks/:id", "/api/tasks/{id}"}

Distinct(seq) == \A i, j \in 1..Len(seq) : i # j => seq[i] # seq[j]

\* C1: in the in-memory store no two tasks of the collection have the same id, and
\* the ids returned by the successful creates are pairwise distinct.
C1_UniqueIds ==
    variant = "express" =>
        /\ Distinct([i \in 1..Len(tasks) |-> tasks[i].id])
        /\ Distinct(createdIds)

\* C1 witness: two tasks are live after creates, a delete and an update.
C1_Witness ==
    /\ variant = "express"
    /\ Len(tasks) = 2
    /\ Len(createdIds) = 2
    /\ req.method = "PUT"
    /\ Answered /\ resp.status = 200

\* C2: every successful create of the in-memory store returns an id greater than
\* every id returned before, deleted or not, and a create that is rejected leaves
\* nextId as it was.
C2_IdsIncrease ==
    [][(variant = "express" /\ Handling("POST", "/api/tasks") /\ HandlerRuns) =>
          IF resp'.status = 201
          THEN \A i \in 1..Len(createdIds) : resp'.body.task.id > createdIds[i]
          ELSE nextId' = nextId]_vars

\* C2 witness: a second id was returned after the first task was deleted.
C2_Witness ==
    /\ variant = "express"
    /\ Len(createdIds) = 2
    /\ createdIds[1] \in deletedIds
    /\ req.method = "POST"
    /\ Answered /\ resp.status = 201

Trimmed(v) == v.kind = "string" /\ v.s # <<>> /\ Trim(v.s) = v.s

\* C3: every stored task has a title that is a non-empty string without leading or
\* trailing white space, whether POST or PUT wrote it.
C3_TitlesTrimmed ==
    /\ \A i \in 1..Len(tasks) : Trimmed(tasks[i].title)
    /\ \A i \in 1..Len(repository) : Trimmed(repository[i].title)

\* the title of the body is a string of more than MaxTitleLen characters
TitleTooLong(body) == body.title.kind = "string" /\ Len(Trim(body.title.s)) > MaxTitleLen

DescriptionTooLong(body) ==
    /\ "description" \in DOMAIN body
    /\ body.description.kind = "string"
    /\ Len(Trim(body.description.s)) > MaxDescLen

\* the body is acceptable and its title has exactly MaxTitleLen characters
TitleAtLimit(body) ==
    /\ body.title.kind = "string"
    /\ Len(Trim(body.title.s)) = MaxTitleLen
    /\ ~DescriptionTooLong(body)
    /\ "status" \in DOMAIN body => Readable(body)

\* C4: create accepts a title of exactly 100 characters, rejects a title of more
\* than 100 characters and a description of more than 500 characters with 400, and
\* a rejected create stores nothing.
C4_CreateLengthLimits ==
    [][(Handling("POST", "/api/tasks") /\ HandlerRuns) =>
          /\ TitleAtLimit(req.body) => resp'.status = 201
          /\ (TitleTooLong(req.body) \/ DescriptionTooLong(req.body)) =>
                 (resp'.status = 400 /\ store' = store)]_vars

\* the title is missing, empty or only white space
BlankTitle(v) == v = Undefined \/ (v.kind = "string" /\ Trim(v.s) = <<>>)

\* C5: a create whose title is missing, empty or only white space is answered with
\* 400 and an error payload.
C5_BlankTitleRejected ==
    (Answered /\ req.method = "POST" /\ BlankTitle(req.body.title)) =>
        resp = Response(400, ErrorBody)

\* C5 witness: the in-memory store has answered a create with a title of one space.
C5_Witness ==
    /\ variant = "express"
    /\ Answered
    /\ req.method = "POST"
    /\ req.body.title = Str(<<" ">>)
    /\ resp.status = 400

\* C6: in the full-replace variant a PUT on an existing id with an empty title or a
\* title of more than 100 characters is answered with 400 and the row is unchanged.
C6_InvalidUpdateRejected ==
    [][(variant = "jpa" /\ Handling("PUT", "/api/tasks/{id}") /\ HandlerRuns
            /\ ~ParseLong(req.path).nan
            /\ FindById(ParseLong(req.path).n) # 0
            /\ (req.body.title = Str(<<>>) \/ TitleTooLong(req.body))) =>
          (resp'.status = 400 /\ repository' = repository)]_vars

\* C6 witness: a PUT with a title of 101 characters on a stored row was answered.
C6_Witness ==
    /\ variant = "jpa"
    /\ Answered
    /\ req.method = "PUT"
    /\ ~ParseLong(req.path).nan
    /\ FindById(ParseLong(req.path).n) # 0
    /\ req.body.title = Str(A101)
    /\ resp.status = 400

\* C7: a request that is answered with 400 or 404 leaves the task collection, every
\* task and the id counter as they were.
C7_ErrorsChangeNothing ==
    [][(HandlerRuns /\ resp'.status \in {400, 404}) => store' = store]_vars

\* C7 witness: a DELETE of an id that is not stored was answered 404 while a task
\* was stored.
C7_Witness ==
    /\ Answered
    /\ req.method = "DELETE"
    /\ resp.status = 404
    /\ Len(tasks) + Len(repository) > 0

\* C8: once a delete of an id has succeeded, every later GET, PUT and DELETE of that
\* id is answered 404.
C8_DeletedStaysGone ==
    [][(HandlerRuns /\ IdScoped /\ \E id \in deletedIds : req.path = IdStr(id)) =>
          resp'.status = 404]_vars

\* C9: a GET of the id a create has just returned is answered 200 with the record
\* the create returned.
C9_CreateThenGet ==
    (Answered /\ req.method = "GET" /\ IdScoped /\ lastCreated # NoBody
        /\ req.path = IdStr(lastCreated.task.id)) =>
        resp = Response(200, lastCreated)

\* the fields of the body of a partial update that are present
Present(body) == {f \in {"title", "completed"} : body[f] # Undefined}

\* C10: a PUT of the partial-update variant changes only the fields of the targeted
\* task that are present in the body, and no other task.
C10_PartialUpdateFrame ==
    [][(variant = "express" /\ Handling("PUT", "/api/tasks/:id") /\ HandlerRuns
            /\ resp'.status = 200) =>
          LET idx == FindIndex(tasks, ParseInt(req.path))
          IN  /\ Len(tasks') = Len(tasks)
              /\ \A i \in 1..Len(tasks) : i # idx => tasks'[i] = tasks[i]
              /\ \A f \in DOMAIN tasks[idx] :
                     f \notin Present(req.body) => tasks'[idx][f] = tasks[idx][f]]_vars

\* C10 witness: a body with only a title was applied to a completed task.
C10_Witness ==
    /\ variant = "express"
    /\ Answered
    /\ req.method = "PUT"
    /\ Present(req.body) = {"title"}
    /\ resp.status = 200
    /\ resp.body.task.completed

\* the row of the table with the id of the request path, 0 when there is none
PathRow == IF ParseLong(req.path).nan THEN 0 ELSE FindById(ParseLong(req.path).n)

Identities ==
    <<[i \in 1..Len(tasks) |-> <<tasks[i].id, tasks[i].createdAt>>],
      [i \in 1..Len(repository) |-> repository[i].id]>>

\* C12: no PUT changes the id or the creation time of a task, whatever the body
\* contains, an id or a creation time included.
C12_IdentityKept ==
    [][(HandlerRuns /\ req.method = "PUT") => Identities' = Identities]_vars

\* C12 witness: a PUT whose body names another id and creation time was applied.
C12_Witness ==
    /\ variant = "express"
    /\ Answered
    /\ req.method = "PUT"
    /\ resp.status = 200
    /\ req.body.id # Undefined
    /\ req.body.createdAt # Undefined
    /\ req.body.title # Undefined

\* the tasks of the deployed backend, in the order of its store
Live == IF variant = "express" THEN tasks ELSE repository

\* the ids the creates returned, in the order of the creates, without the deleted
LiveIds == SelectSeq(createdIds, LAMBDA id : id \notin deletedIds)

\* C13: GET /api/tasks answers with exactly the live tasks, in the order of their
\* creation, whatever updates and deletes of other tasks came between.
C13_ListInCreationOrder ==
    (Answered /\ req.method = "GET" /\ req.route = "/api/tasks") =>
        /\ resp = Response(200, ListBody(Live))
        /\ [i \in 1..Len(Live) |-> Live[i].id] = LiveIds

\* C13 witness: of three tasks the second was deleted and the third updated, and
\* the list shows the first and the third.
C13_Witness ==
    /\ variant = "express"
    /\ Answered
    /\ req.method = "GET" /\ req.route = "/api/tasks"
    /\ Len(createdIds) = 3
    /\ deletedIds = {createdIds[2]}
    /\ Len(resp.body.tasks) = 2
    /\ resp.body.tasks[2].completed

\* C14: a create that gives no status stores and returns a task with status TODO,
\* completed = false in the in-memory variant, whatever else the body contains.
C14_DefaultStatus ==
    (Answered /\ req.method = "POST" /\ resp.status = 201) =>
        LET task == resp.body.task
        IN  /\ Len(Live) >= 1
            /\ Live[Len(Live)] = task
            /\ variant = "express" => task.completed = FALSE
            /\ (variant = "jpa" /\ req.body.status = Absent) => task.status = "TODO"

\* C14 witness: the in-memory store has created a task from a body that carries
\* completed = true, an id and a creation time.
C14_Witness ==
    /\ variant = "express"
    /\ Answered
    /\ req.method = "POST"
    /\ resp.status = 201
    /\ req.body.completed = Bool(TRUE)
    /\ req.body.id # Undefined

\* C15: the status of every stored row is TODO, IN_PROGRESS or DONE, never null or
\* another value, and a create or update whose status is none of the three is
\* answered with 400.
C15_StatusDomain ==
    /\ \A i \in 1..Len(repository) : repository[i].status \in TaskStatus
    /\ (variant = "jpa" /\ Answered /\ req.method \in {"POST", "PUT"}
            /\ req.body.status \notin TaskStatus \cup {Absent}) =>
           resp = Response(400, ErrorBody)

\* C15 witness: a PUT with status null on a stored row was answered 400.
C15_Witness ==
    /\ variant = "jpa"
    /\ Answered
    /\ req.method = "PUT"
    /\ PathRow # 0
    /\ req.body.status = NoStatus
    /\ resp.status = 400

\* the path of the request names, in decimal, an id that no stored task has
MissingId ==
    \E id \in 1..(MaxId + 1) :
        /\ req.path = IdStr(id)
        /\ \A i \in 1..Len(Live) : Live[i].id # id

\* C16: a GET, PUT or DELETE of an id that is not stored is answered 404 with an
\* error payload, and no response that reports a failure is without a body.
C16_NotFoundWithErrorBody ==
    [][HandlerRuns =>
          /\ (IdScoped /\ req.method \in {"GET", "PUT", "DELETE"} /\ MissingId) =>
                 resp' = Response(404, ErrorBody)
          /\ resp'.status >= 400 => resp'.body # NoBody]_vars

\* the path segment is a decimal number
Decimal(path) == path # <<>> /\ \A i \in 1..Len(path) : IsDigit(path[i])

\* C17: a successful DELETE of an id removes the one task with that id and nothing
\* else: the tasks before and after it are stored as they were, in the same order,
\* and the answer is 200 with the removed task (in-memory variant) or 204.
C17_DeleteRemovesOne ==
    [][(HandlerRuns /\ req.method = "DELETE" /\ Decimal(req.path)
            /\ resp'.status \in {200, 204}) =>
          \E idx \in 1..Len(Live) :
              /\ req.path = IdStr(Live[idx].id)
              /\ Live' = [i \in 1..(Len(Live) - 1) |->
                             IF i < idx THEN Live[i] ELSE Live[i + 1]]
              /\ resp' = IF variant = "express"
                         THEN Response(200, TaskBody(Live[idx]))
                         ELSE Response(204, NoBody)]_vars

\* C17 witness: the first of three tasks was deleted and the two others are stored.
C17_Witness ==
    /\ variant = "express"
    /\ Answered
    /\ req.method = "DELETE"
    /\ resp.status = 200
    /\ Len(createdIds) = 3
    /\ resp.body.task.id = createdIds[1]
    /\ [i \in 1..Len(tasks) |-> tasks[i].id] = <<createdIds[2], createdIds[3]>>

\* C19: a PUT or DELETE whose path id is not a decimal number ('abc', '1abc',
\* '1.5') changes nothing in the store, returns no task, and is always answered
\* with the same error.
C19_MalformedIdRefused ==
    [][(HandlerRuns /\ IdScoped /\ req.method \in {"PUT", "DELETE"}
            /\ ~Decimal(req.path)) =>
          /\ store' = store
          /\ resp' = Response(IF variant = "express" THEN 404 ELSE 400, ErrorBody)]_vars

\* the form holds input that validate refuses
FormInvalid ==
    \/ Trim(form.title) = <<>>
    \/ Len(form.title) > MaxTitleLen
    \/ Len(form.description) > MaxDescLen

\* C20: a submit of the form whose title is empty after trimming, or longer than
\* 100 characters, or whose description is longer than 500 characters, does not
\* call onSave, records an error for the field, and leaves isSubmitting false.
C20_InvalidNotSaved ==
    [][(FormSubmit /\ FormInvalid) =>
          /\ form'.saves = form.saves
          /\ form'.pending = NoTask
          /\ form'.lastSaved = form.lastSaved
          /\ form'.isSubmitting = FALSE
          /\ (Trim(form.title) = <<>> \/ Len(form.title) > MaxTitleLen) =>
                 form'.errors.title # ""
          /\ Len(form.description) > MaxDescLen => form'.errors.description # ""]_vars

\* C20 witness: a submit with a title of 101 characters and a description of 501
\* characters was refused after an earlier submit had been saved.
C20_Witness ==
    /\ form.title = A101
    /\ form.description = D501
    /\ form.errors.title = "Title must be 100 characters or less"
    /\ form.errors.description = "Description must be 500 characters or less"
    /\ form.saves = 1
    /\ ~form.isSubmitting

\* the table and the two responses after the two requests, the first handled to
\* its end before the second begins
Serial(first, second) ==
    LET a == Serve(threads.base[1], threads.base[2], threads.t[first].req)
        b == Serve(a.rows, a.seq, threads.t[second].req)
    IN  [rows |-> b.rows, seq |-> b.seq,
         resps |-> [i \in Threads |-> IF i = first THEN a.resp ELSE b.resp]]

\* the table and the two responses as they are
Concurrent ==
    [rows |-> repository, seq |-> sequence,
     resps |-> [i \in Threads |-> threads.t[i].resp]]

\* C18: when two concurrent requests have both been answered, the table and the
\* two responses are those of handling the two requests one after the other, in
\* one of the two orders.
C18_Serializable ==
    (\A i \in Threads : threads.t[i].pc = "done") =>
        (Concurrent = Serial(1, 2) \/ Concurrent = Serial(2, 1))

\* C21: a submit of valid input calls onSave exactly once, with the title trimmed,
\* the description trimmed (undefined when nothing is left of it), the selected
\* status, and the entered due date, null when none was entered.
C21_ValidSaved ==
    [][(FormSubmit /\ ~FormInvalid) =>
          /\ form'.saves = form.saves + 1
          /\ form'.pending # NoTask
          /\ form'.lastSaved.title = Trim(form.title)
          /\ form'.lastSaved.description =
                 (IF Trim(form.description) = <<>> THEN Undefined
                  ELSE Str(Trim(form.description)))
          /\ form'.lastSaved.status = form.status
          /\ form'.lastSaved.dueDate = (IF form.dueDate = "" THEN NoDate ELSE form.dueDate)]_vars

\* C21 witness: onSave is pending with the trimmed title of a padded input, no
\* description for a blank one, a chosen status and no due date.
C21_Witness ==
    /\ form.pending # NoTask
    /\ form.title = <<" ", "a", " ">>
    /\ form.description = <<" ">>
    /\ form.lastSaved.title = <<"a">>
    /\ form.lastSaved.description = Undefined
    /\ form.lastSaved.status = "IN_PROGRESS"
    /\ form.lastSaved.dueDate = NoDate

\* the four fields of the form
FormFields(f) == <<f.title, f.description, f.status, f.dueDate>>

\* C22: when onSave has fulfilled, the form is reset (title and description empty,
\* status TODO, no due date) if it is in create mode, and keeps its values if it is
\* in edit mode.
C22_ResetAfterSave ==
    [][FormSettle(TRUE) =>
          FormFields(form') = IF form.initialTask = NoTask
                              THEN <<<<>>, <<>>, "TODO", "">>
                              ELSE FormFields(form)]_vars

\* C23: isSubmitting is true exactly while a call of onSave is pending: it is set
\* when onSave is called and cleared when onSave settles, fulfilled or rejected.
C23_SubmittingWhilePending ==
    form.isSubmitting <=> form.pending # NoTask

\* C23 witness: onSave rejected and the form is not submitting.
C23_Witness ==
    /\ form.settled = "rejected"
    /\ ~form.isSubmitting
    /\ form.pending = NoTask
    /\ form.title # <<>>

Permutation(seq, ts) ==
    /\ Len(seq) = Len(ts)
    /\ \A x \in {ts[i] : i \in 1..Len(ts)} :
           Cardinality({i \in 1..Len(ts) : ts[i] = x})
               = Cardinality({i \in 1..Len(seq) : seq[i] = x})

\* C26: the displayed list is a permutation of the loaded tasks: by status it goes
\* TODO, IN_PROGRESS, DONE; by due date it ascends, the tasks without due date
\* after all dated ones; unsorted it is the loaded list; and choosing a sort leaves
\* the loaded list as it was.
C26_SortedView ==
    [][(\E v \in SortBys : AppSortBy(v)) =>
          LET shown == Sort(app'.sortBy, app'.tasks)
          IN  /\ app'.tasks = app.tasks
              /\ Permutation(shown, app.tasks)
              /\ app'.sortBy = "none" => shown = app.tasks
              /\ app'.sortBy = "status" =>
                     \A i, j \in 1..Len(shown) :
                         i < j => StatusOrder(shown[i].status) <= StatusOrder(shown[j].status)
              /\ app'.sortBy = "dueDate" =>
                     \A i, j \in 1..Len(shown) :
                         i < j => /\ shown[i].dueDate = NoDate => shown[j].dueDate = NoDate
                                  /\ (shown[i].dueDate # NoDate /\ shown[j].dueDate # NoDate)
                                         => GetTime(shown[i].dueDate) <= GetTime(shown[j].dueDate)]_vars

\* C26 witness: sorted by due date, a list that was loaded with the undated task
\* first and the later date before the earlier one.
C26_Witness ==
    /\ app.sortBy = "dueDate"
    /\ Len(app.tasks) = 3
    /\ app.tasks[1].dueDate = NoDate
    /\ app.tasks[2].dueDate = "2025-12-31"
    /\ app.tasks[3].dueDate = "2025-12-01"
    /\ SortedTasks[1].id = 3
    /\ SortedTasks[3].id = 1

\* the step is the arrival of the answer to the PUT or POST of handleSave, or its
\* failure
SaveArrives == \E ok \in BOOLEAN : AppSaveArrives(ok)

\* the step is the arrival of the answer to the DELETE of handleDelete, or its failure
DeleteArrives == \E ok \in BOOLEAN : HandleDeleteArrives(ok)

\* C24: a submit with editingId set sends PUT /tasks/{editingId}, and with editingId
\* null it sends POST /tasks; when the PUT succeeds editingId becomes null, and
\* when it fails the error is set and editingId keeps its value.
C24_SaveByMode ==
    [][/\ (AppSubmit /\ Accepted(form)) =>
              IF app.editingId # 0
              THEN /\ app'.save.method = "PUT"
                   /\ app'.save.route = "/api/tasks/{id}"
                   /\ app'.save.path = IdStr(app.editingId)
              ELSE /\ app'.save.method = "POST"
                   /\ app'.save.route = "/api/tasks"
       /\ (SaveArrives /\ app.save.method = "PUT") =>
              IF app'.last.ok
              THEN app'.editingId = 0
              ELSE /\ app'.error # ""
                   /\ app'.editingId = app.editingId]_vars

\* C24 witness: a PUT has failed; the error is shown and the app is still editing
\* the task.
C24_Witness ==
    /\ app.last = [method |-> "PUT", ok |-> FALSE]
    /\ app.error = SaveFailed
    /\ app.editingId # 0
    /\ app.save = NoRequest

\* C25: a create, update or delete that succeeds sends GET /tasks, and the answer
\* to a GET /tasks replaces the loaded list; one that fails sets the error and sends
\* no GET.
C25_ReloadAfterSuccess ==
    [][/\ (SaveArrives \/ DeleteArrives) =>
              IF app'.last.ok
              THEN /\ app'.loads = Append(app.loads, ListBody(repository'))
                   /\ app'.isLoading
              ELSE /\ app'.error # ""
                   /\ app'.loads = app.loads
       /\ \A k \in 1..Len(app.loads) :
              AppLoadArrives(k, TRUE) => app'.tasks = app.loads[k].tasks]_vars

\* C25 witness: the task that was created is in the list, loaded by the GET that
\* followed the POST.
C25_Witness ==
    /\ app.last = [method |-> "GET", ok |-> TRUE]
    /\ form.saves = 1
    /\ Len(app.tasks) = 1
    /\ app.tasks = repository
    /\ app.loads = <<>>

\* C28: whenever editingId is set and no GET /tasks is in flight, the loaded list
\* has a task with that id: once the task being edited is deleted and the list is
\* reloaded the app is out of edit mode, and a submit then sends no PUT for the id
\* of the deleted task.
C28_EditingTaskListed ==
    [][/\ (app'.editingId # 0 /\ app'.loads = <<>>) => EditingTask(app') # NotFound
       /\ (AppSubmit /\ Accepted(form) /\ app.loads = <<>> /\ app'.save.method = "PUT")
              => \E i \in 1..Len(app.tasks) : IdStr(app.tasks[i].id) = app'.save.path]_vars

\* C29: isLoading is true whenever a GET /tasks is in flight, and once every GET has
\* completed the loaded list is the answer to the one that was sent last (when
\* that one was answered).
C29_LatestLoadShown ==
    /\ app.loads # <<>> => app.isLoading
    /\ (app.loads = <<>> /\ app.latest # NoBody) => app.tasks = app.latest.tasks

\* C30: in create mode a failed save leaves the form as it is: when the POST of
\* handleSave fails, the title, description, status and due date that were entered
\* are still in the form.
C30_FailedCreateKeepsInput ==
    [][(SaveArrives /\ app.save.method = "POST" /\ ~app'.last.ok /\ app.editingId = 0)
          => FormFields(form') = FormFields(form)]_vars

====
